---- MODULE Spec2Model ----
(***************************************************************************)
(* shapeshiftio.py: one function per REST endpoint of shapeshift.io, two   *)
(* urllib helpers, and the legacy class ShapeShiftIO whose methods forward *)
(* to the functions with the instance as url_store.                        *)
(*                                                                         *)
(* A Python string is a sequence of tokens: a token is one character       *)
(* ("&", "=", " ", ...) or a run of characters that are safe in a URL      *)
(* ("btc_ltc", "/rate/").  String concatenation is \o.                     *)
(*                                                                         *)
(* A call is two steps: the body of the function up to its return          *)
(* statement (build the url, store it), then the helper it returns         *)
(* through (_get_request or _post_request), which hands the Request to     *)
(* urlopen and decodes the service's response.  requests holds the         *)
(* Requests the call has handed to urlopen.  The module imports urllib     *)
(* from Python 2 or, failing that, from Python 3: python is the            *)
(* interpreter it runs under.  At pc = "done" the call has ended and the   *)
(* state shows what the caller observes; the caller then goes on (Return)  *)
(* and only the heap is left of the call.                                  *)
(***************************************************************************)
EXTENDS Integers, Sequences, FiniteSets, TLC

VARIABLES python, heap, pc, call, pending, requests, resp, outcome

vars == <<python, heap, pc, call, pending, requests, resp, outcome>>

(***************************************************************************)
(* Bounds and input sets                                                   *)
(***************************************************************************)
MaxFields == 2

\* Path arguments a caller passes: the empty string, a pair, and an address
\* with an appended destination tag (characters unsafe in a path).
PathArgs == { <<>>, <<"btc_ltc">>, <<"r9x", "?", "dt", "=", "7">> }

\* max_results arguments: below, at the edge of, inside and above 1..50.
MaxResultsArgs == { -1, 0, 7, 51 }

\* Field names and values of a postdata mapping.
FieldNames == << <<"withdrawal">>, <<"pair">>, <<"returnAddress">> >>
FieldValues == { <<>>, <<"AAA">>, <<"x", "&", "pair", "=", "y", " ", "+", "%">> }

\* A mapping is the sequence of its items in iteration order.
RECURSIVE MappingsFrom(_, _)
MappingsFrom(i, n) ==
    IF i > Len(FieldNames) \/ n = 0 THEN { <<>> }
    ELSE MappingsFrom(i + 1, n)
         \cup { <<<<FieldNames[i], v>>>> \o m :
                    v \in FieldValues, m \in MappingsFrom(i + 1, n - 1) }

Mappings == MappingsFrom(1, MaxFields)

(***************************************************************************)
(* Python values                                                           *)
(***************************************************************************)
None == <<"None">>

\* Values a caller passes as url_store: nothing (the default None), a
\* ShapeShiftIO instance, an object with a url attribute that is false in a
\* boolean test (it defines __len__ or __bool__), and an object that is
\* true but takes no attribute (an int, a str).
NoSink == "None"
Inst   == "inst"
Falsy  == "falsy"
Scalar == "scalar"
Sinks  == { NoSink, Inst, Falsy, Scalar }

\* bool(o)
truth(o) == o \in { Inst, Scalar }

\* Objects that take a url attribute, and the attribute's value.
Holders == { Inst, Falsy }

\* o.url = url
setattr_url(o, url, h) ==
    IF o \in Holders
    THEN [heap |-> [h EXCEPT ![o] = url], exc |-> ""]
    ELSE [heap |-> h, exc |-> "AttributeError"]

\* str(n) of an integer.
Digit(d) == <<"0", "1", "2", "3", "4", "5", "6", "7", "8", "9">>[d + 1]

RECURSIVE Digits(_)
Digits(n) == IF n < 10 THEN <<Digit(n)>> ELSE Digits(n \div 10) \o <<Digit(n % 10)>>

str(n) == IF n < 0 THEN <<"-">> \o Digits(0 - n) ELSE Digits(n)

(***************************************************************************)
(* urllib and json                                                         *)
(***************************************************************************)
\* quote_plus of one character: a space becomes "+", a character outside
\* the unreserved set becomes %XX, anything else is kept.
QuoteChar(c) ==
    CASE c = " " -> <<"+">>
      [] c = "&" -> <<"%", "2", "6">>
      [] c = "=" -> <<"%", "3", "D">>
      [] c = "+" -> <<"%", "2", "B">>
      [] c = "%" -> <<"%", "2", "5">>
      [] c = "?" -> <<"%", "3", "F">>
      [] c = "/" -> <<"%", "2", "F">>
      [] OTHER   -> <<c>>

RECURSIVE quote_plus(_)
quote_plus(s) == IF s = <<>> THEN <<>> ELSE QuoteChar(Head(s)) \o quote_plus(Tail(s))

\* urlencode(query): k=v of every item, quoted, joined by "&".
RECURSIVE urlencode(_)
urlencode(query) ==
    IF query = <<>> THEN <<>>
    ELSE LET item == quote_plus(query[1][1]) \o <<"=">> \o quote_plus(query[1][2])
         IN  IF Len(query) = 1 THEN item
             ELSE item \o <<"&">> \o urlencode(Tail(query))

\* Bodies the service answers with, and json.loads of each.
RateBody  == "{\"pair\":\"btc_ltc\",\"rate\":\"70.1234\"}"
ErrorBody == "{\"error\":\"Unknown pair\"}"
ListBody  == "[{\"pair\":\"btc_ltc\"},{\"pair\":\"ltc_btc\"}]"
HtmlBody  == "<html>Bad Gateway</html>"
Bodies    == { RateBody, ErrorBody, ListBody, HtmlBody }

JsonNull == [t |-> "null", v |-> <<>>]

json_loads(text) ==
    CASE text = RateBody ->
             [exc |-> "", value |-> [t |-> "object",
                                      v |-> << <<"pair", "btc_ltc">>, <<"rate", "70.1234">> >>]]
      [] text = ErrorBody ->
             [exc |-> "", value |-> [t |-> "object", v |-> << <<"error", "Unknown pair">> >>]]
      [] text = ListBody ->
             [exc |-> "", value |-> [t |-> "array",
                                      v |-> << <<"pair", "btc_ltc">>, <<"pair", "ltc_btc">> >>]]
      [] OTHER -> [exc |-> "ValueError", value |-> JsonNull]

\* What the service does with a request: the connection fails, or it
\* answers with a status and a body.
Responses ==
    { [net |-> "down", status |-> 0, body |-> ""] }
    \cup [net : {"up"}, status : {200, 500}, body : Bodies]

NoResponse == [net |-> "none", status |-> 0, body |-> ""]

\* Request(url, data): the method is POST when data is given.
NoData == None

Request(url, data) ==
    [verb |-> IF data = NoData THEN "GET" ELSE "POST", url |-> url, body |-> data]

\* Python 3's urlopen takes bytes as data and raises TypeError for a str,
\* which is what urlencode gives; Python 2's takes the str.
Rejects(req) == python = 3 /\ req.body # NoData

\* urlopen(req).read(): TypeError for data urlopen does not take, URLError
\* when the connection fails, HTTPError on a status outside 200..299, the
\* body otherwise.
urlopen_read(req, r) ==
    IF Rejects(req) THEN [exc |-> "TypeError", data |-> ""]
    ELSE IF r.net # "up" THEN [exc |-> "URLError", data |-> ""]
    ELSE IF ~(200 <= r.status /\ r.status < 300) THEN [exc |-> "HTTPError", data |-> ""]
    ELSE [exc |-> "", data |-> r.body]

\* How a call ends.
NoOutcome     == [kind |-> "none", exc |-> "", value |-> JsonNull]
Returned(v)   == [kind |-> "return", exc |-> "", value |-> v]
Raised(e)     == [kind |-> "raise", exc |-> e, value |-> JsonNull]

\* Mutant: a failed request yields a default value instead of the failure.
Receive_swallowing(req, r) ==
    LET response == urlopen_read(req, r)
    IN  IF response.exc # "" THEN Returned(JsonNull)
        ELSE LET decoded == json_loads(response.data)
             IN  IF decoded.exc # "" THEN Returned(JsonNull)
                 ELSE Returned(decoded.value)

\* Mutant: a decoded object with an error field is turned into a failure.
Receive_raising_on_error(req, r) ==
    LET response == urlopen_read(req, r)
    IN  IF response.exc # "" THEN Raised(response.exc)
        ELSE LET decoded == json_loads(response.data)
             IN  IF decoded.exc # "" THEN Raised(decoded.exc)
                 ELSE IF decoded.value.t = "object" /\ decoded.value.v[1][1] = "error"
                      THEN Raised("ServiceError")
                      ELSE Returned(decoded.value)

\* json.loads(urlopen(...).read()): the decoded body, or the failure of the
\* request or of the decoding.
Receive(req, r) ==
    LET response == urlopen_read(req, r)
    IN  IF response.exc # "" THEN Raised(response.exc)
        ELSE LET decoded == json_loads(response.data)
             IN  IF decoded.exc # "" THEN Raised(decoded.exc)
                 ELSE Returned(decoded.value)

\* The response a request got: none when urlopen did not take the request.
Response(req, r) == IF Rejects(req) THEN NoResponse ELSE r

\* The helpers: the Request each hands to urlopen, the response it gets when
\* the service would respond r, and how it ends.
_get_request(url, r) ==
    LET req == Request(url, NoData)
    IN  [request |-> req, response |-> Response(req, r), outcome |-> Receive(req, r)]

\* Mutant: the items are joined without quoting.
RECURSIVE JoinUnquoted(_)
JoinUnquoted(query) ==
    IF query = <<>> THEN <<>>
    ELSE LET item == query[1][1] \o <<"=">> \o query[1][2]
         IN  IF Len(query) = 1 THEN item
             ELSE item \o <<"&">> \o JoinUnquoted(Tail(query))

_post_request_unquoted(url, postdata, r) ==
    LET req == Request(url, JoinUnquoted(postdata))
    IN  [request |-> req, response |-> Response(req, r), outcome |-> Receive(req, r)]

_post_request(url, postdata, r) ==
    LET req == Request(url, urlencode(postdata))
    IN  [request |-> req, response |-> Response(req, r), outcome |-> Receive(req, r)]

(***************************************************************************)
(* The functions.  Each takes the heap it runs on and gives the frame it   *)
(* leaves when it reaches its return statement: the heap after the store,  *)
(* and either the helper the call continues in, with its arguments, or the *)
(* exception that ended the call.                                          *)
(***************************************************************************)
shapeshift_url_base == <<"https://shapeshift.io">>

NoPostdata == <<>>

\* Mutant: the store without the test of url_store.
store_url_unchecked(url_store, url, h) == setattr_url(url_store, url, h)

\* if (url_store): url_store.url = url
store_url(url_store, url, h) ==
    IF truth(url_store) THEN setattr_url(url_store, url, h)
    ELSE [heap |-> h, exc |-> ""]

\* return _get_request(url), reached unless the store raised.
return_get(st, url) ==
    [heap |-> st.heap, exc |-> st.exc, url |-> url, postdata |-> NoPostdata,
     pc |-> IF st.exc = "" THEN "get" ELSE "done"]

\* return _post_request(url, postdata), reached unless the store raised.
return_post(st, url, postdata) ==
    [heap |-> st.heap, exc |-> st.exc, url |-> url, postdata |-> postdata,
     pc |-> IF st.exc = "" THEN "post" ELSE "done"]

\* Mutant: the URL already stored in the sink is used again.
rate_reusing_stored(pair, url_store, h) ==
    LET url == IF url_store \in Holders /\ h[url_store] # None
               THEN h[url_store]
               ELSE shapeshift_url_base \o <<"/rate/">> \o pair
    IN  return_get(store_url(url_store, url, h), url)

rate(pair, url_store, h) ==
    LET url == shapeshift_url_base \o <<"/rate/">> \o pair
    IN  return_get(store_url(url_store, url, h), url)

limit(pair, url_store, h) ==
    LET url == shapeshift_url_base \o <<"/limit/">> \o pair
    IN  return_get(store_url(url_store, url, h), url)

\* Mutant: an empty pair is special-cased to the path without the slash.
market_info_special(pair, url_store, h) ==
    LET url == IF pair = <<>> THEN shapeshift_url_base \o <<"/marketinfo">>
               ELSE shapeshift_url_base \o <<"/marketinfo/">> \o pair
    IN  return_get(store_url(url_store, url, h), url)

market_info(pair, url_store, h) ==
    LET url == shapeshift_url_base \o <<"/marketinfo/">> \o pair
    IN  return_get(store_url(url_store, url, h), url)

tx_status(address, url_store, h) ==
    LET url == shapeshift_url_base \o <<"/txStat/">> \o address
    IN  return_get(store_url(url_store, url, h), url)

time_remaining(address, url_store, h) ==
    LET url == shapeshift_url_base \o <<"/timeremaining/">> \o address
    IN  return_get(store_url(url_store, url, h), url)

tx_by_api_key(api_key, url_store, h) ==
    LET url == shapeshift_url_base \o <<"/txbyapi_key/">> \o api_key
    IN  return_get(store_url(url_store, url, h), url)

recent_tx_default == 5

\* Mutant: max_results is clamped to the service's range 1..50.
recent_tx_clamped(max_results, url_store, h) ==
    LET n   == IF max_results < 1 THEN 1 ELSE IF max_results > 50 THEN 50 ELSE max_results
        url == shapeshift_url_base \o <<"/recenttx/">> \o str(n)
    IN  return_get(store_url(url_store, url, h), url)

recent_tx(max_results, url_store, h) ==
    LET url == shapeshift_url_base \o <<"/recenttx/">> \o str(max_results)
    IN  return_get(store_url(url_store, url, h), url)

coin_list(url_store, h) ==
    LET url == shapeshift_url_base \o <<"/getcoins">>
    IN  return_get(store_url(url_store, url, h), url)

\* Mutant: the segments follow the order of the parameters.
tx_by_address_swapped(api_key, address, url_store, h) ==
    LET url == shapeshift_url_base \o <<"/txbyaddress/">> \o api_key \o <<"/">> \o address
    IN  return_get(store_url(url_store, url, h), url)

tx_by_address(api_key, address, url_store, h) ==
    LET url == shapeshift_url_base \o <<"/txbyaddress/">> \o address \o <<"/">> \o api_key
    IN  return_get(store_url(url_store, url, h), url)

validate_address(address, coin, url_store, h) ==
    LET url == shapeshift_url_base \o <<"/validateAddress/">> \o address \o <<"/">> \o coin
    IN  return_get(store_url(url_store, url, h), url)

shift(postdata, url_store, h) ==
    LET url == shapeshift_url_base \o <<"/shift">>
    IN  return_post(store_url(url_store, url, h), url, postdata)

set_mail(postdata, url_store, h) ==
    LET url == shapeshift_url_base \o <<"/mail">>
    IN  return_post(store_url(url_store, url, h), url, postdata)

send_amount(postdata, url_store, h) ==
    LET url == shapeshift_url_base \o <<"/sendamount">>
    IN  return_post(store_url(url_store, url, h), url, postdata)

cancel_pending(postdata, url_store, h) ==
    LET url == shapeshift_url_base \o <<"/cancelpending">>
    IN  return_post(store_url(url_store, url, h), url, postdata)

(***************************************************************************)
(* class ShapeShiftIO: every method forwards to the function, passing the  *)
(* instance as url_store.  time_remaining declares (address, url_store)    *)
(* and no self: the instance is bound to address, and the name self in its *)
(* body is bound nowhere, so evaluating the arguments of the forwarded     *)
(* call raises NameError before the function is entered.                   *)
(***************************************************************************)
ShapeShiftIO_init == None

ShapeShiftIO_recent_tx_default == 5

ShapeShiftIO_rate(self, pair, h) == rate(pair, self, h)

ShapeShiftIO_limit(self, pair, h) == limit(pair, self, h)

ShapeShiftIO_market_info(self, pair, h) == market_info(pair, self, h)

ShapeShiftIO_tx_status(self, address, h) == tx_status(address, self, h)

ShapeShiftIO_time_remaining(address, url_store, h) ==
    [heap |-> h, exc |-> "NameError", url |-> None, postdata |-> NoPostdata, pc |-> "done"]

ShapeShiftIO_tx_by_api_key(self, api_key, h) == tx_by_api_key(api_key, self, h)

ShapeShiftIO_recent_tx(self, max_results, h) == recent_tx(max_results, self, h)

ShapeShiftIO_coin_list(self, h) == coin_list(self, h)

ShapeShiftIO_tx_by_address(self, api_key, address, h) == tx_by_address(api_key, address, self, h)

ShapeShiftIO_validate_address(self, address, coin, h) == validate_address(address, coin, self, h)

ShapeShiftIO_shift(self, postdata, h) == shift(postdata, self, h)

ShapeShiftIO_set_mail(self, postdata, h) == set_mail(postdata, self, h)

ShapeShiftIO_send_amount(self, postdata, h) == send_amount(postdata, self, h)

ShapeShiftIO_cancel_pending(self, postdata, h) == cancel_pending(postdata, self, h)

(***************************************************************************)
(* The state machine                                                       *)
(***************************************************************************)
NoCall == [via |-> "none", op |-> "none", args |-> <<>>, url_store |-> NoSink]

NoPending == [url |-> None, postdata |-> NoPostdata]

Init ==
    /\ python \in {2, 3}
    /\ heap = [o \in Holders |-> ShapeShiftIO_init]
    /\ pc = "idle"
    /\ call = NoCall
    /\ pending = NoPending
    /\ requests = <<>>
    /\ resp = NoResponse
    /\ outcome = NoOutcome

\* A caller enters an operation: the function runs to its return statement.
Enter(via, op, args, url_store, frame) ==
    /\ call' = [via |-> via, op |-> op, args |-> args, url_store |-> url_store]
    /\ heap' = frame.heap
    /\ pc' = frame.pc
    /\ pending' = [url |-> frame.url, postdata |-> frame.postdata]
    /\ requests' = <<>>
    /\ resp' = NoResponse
    /\ outcome' = IF frame.exc = "" THEN NoOutcome ELSE Raised(frame.exc)
    /\ UNCHANGED python

\* The call is over: the caller has its result or its exception, the frame
\* is gone, and only the heap remains.
Return ==
    /\ pc = "done"
    /\ pc' = "idle"
    /\ call' = NoCall
    /\ pending' = NoPending
    /\ requests' = <<>>
    /\ resp' = NoResponse
    /\ outcome' = NoOutcome
    /\ UNCHANGED <<python, heap>>

\* The call continues in _get_request: the request goes out, the service
\* responds, the helper returns or raises.
Step_get_request ==
    /\ pc = "get"
    /\ \E r \in Responses :
          LET done == _get_request(pending.url, r)
          IN  /\ requests' = Append(requests, done.request)
              /\ resp' = done.response
              /\ outcome' = done.outcome
    /\ pc' = "done"
    /\ UNCHANGED <<python, heap, call, pending>>

Step_post_request ==
    /\ pc = "post"
    /\ \E r \in Responses :
          LET done == _post_request(pending.url, pending.postdata, r)
          IN  /\ requests' = Append(requests, done.request)
              /\ resp' = done.response
              /\ outcome' = done.outcome
    /\ pc' = "done"
    /\ UNCHANGED <<python, heap, call, pending>>

Call_rate ==
    /\ pc = "idle"
    /\ \E pair \in PathArgs, url_store \in Sinks :
           Enter("function", "rate", <<pair>>, url_store, rate(pair, url_store, heap))

Call_limit ==
    /\ pc = "idle"
    /\ \E pair \in PathArgs, url_store \in Sinks :
           Enter("function", "limit", <<pair>>, url_store, limit(pair, url_store, heap))

Call_market_info ==
    /\ pc = "idle"
    /\ \E pair \in PathArgs, url_store \in Sinks :
           Enter("function", "market_info", <<pair>>, url_store, market_info(pair, url_store, heap))

Call_tx_status ==
    /\ pc = "idle"
    /\ \E address \in PathArgs, url_store \in Sinks :
           Enter("function", "tx_status", <<address>>, url_store, tx_status(address, url_store, heap))

Call_time_remaining ==
    /\ pc = "idle"
    /\ \E address \in PathArgs, url_store \in Sinks :
           Enter("function", "time_remaining", <<address>>, url_store, time_remaining(address, url_store, heap))

Call_tx_by_api_key ==
    /\ pc = "idle"
    /\ \E api_key \in PathArgs, url_store \in Sinks :
           Enter("function", "tx_by_api_key", <<api_key>>, url_store, tx_by_api_key(api_key, url_store, heap))

Call_recent_tx ==
    /\ pc = "idle"
    /\ \E url_store \in Sinks :
           \/ Enter("function", "recent_tx", <<>>, url_store,
                    recent_tx(recent_tx_default, url_store, heap))
           \/ \E max_results \in MaxResultsArgs :
                  Enter("function", "recent_tx", <<max_results>>, url_store,
                        recent_tx(max_results, url_store, heap))

Call_coin_list ==
    /\ pc = "idle"
    /\ \E url_store \in Sinks :
           Enter("function", "coin_list", <<>>, url_store, coin_list(url_store, heap))

Call_tx_by_address ==
    /\ pc = "idle"
    /\ \E api_key \in PathArgs, address \in PathArgs, url_store \in Sinks :
           Enter("function", "tx_by_address", <<api_key, address>>, url_store,
                 tx_by_address(api_key, address, url_store, heap))

Call_validate_address ==
    /\ pc = "idle"
    /\ \E address \in PathArgs, coin \in PathArgs, url_store \in Sinks :
           Enter("function", "validate_address", <<address, coin>>, url_store,
                 validate_address(address, coin, url_store, heap))

Call_shift ==
    /\ pc = "idle"
    /\ \E postdata \in Mappings, url_store \in Sinks :
           Enter("function", "shift", <<postdata>>, url_store, shift(postdata, url_store, heap))

Call_set_mail ==
    /\ pc = "idle"
    /\ \E postdata \in Mappings, url_store \in Sinks :
           Enter("function", "set_mail", <<postdata>>, url_store, set_mail(postdata, url_store, heap))

Call_send_amount ==
    /\ pc = "idle"
    /\ \E postdata \in Mappings, url_store \in Sinks :
           Enter("function", "send_amount", <<postdata>>, url_store, send_amount(postdata, url_store, heap))

Call_cancel_pending ==
    /\ pc = "idle"
    /\ \E postdata \in Mappings, url_store \in Sinks :
           Enter("function", "cancel_pending", <<postdata>>, url_store, cancel_pending(postdata, url_store, heap))

Method_rate ==
    /\ pc = "idle"
    /\ \E pair \in PathArgs :
           Enter("method", "rate", <<pair>>, Inst, ShapeShiftIO_rate(Inst, pair, heap))

Method_limit ==
    /\ pc = "idle"
    /\ \E pair \in PathArgs :
           Enter("method", "limit", <<pair>>, Inst, ShapeShiftIO_limit(Inst, pair, heap))

Method_market_info ==
    /\ pc = "idle"
    /\ \E pair \in PathArgs :
           Enter("method", "market_info", <<pair>>, Inst, ShapeShiftIO_market_info(Inst, pair, heap))

Method_tx_status ==
    /\ pc = "idle"
    /\ \E address \in PathArgs :
           Enter("method", "tx_status", <<address>>, Inst, ShapeShiftIO_tx_status(Inst, address, heap))

\* inst.time_remaining(x): the instance is bound to address, x to url_store.
Method_time_remaining ==
    /\ pc = "idle"
    /\ \E address \in PathArgs :
           Enter("method", "time_remaining", <<address>>, Inst,
                 ShapeShiftIO_time_remaining(Inst, address, heap))

Method_tx_by_api_key ==
    /\ pc = "idle"
    /\ \E api_key \in PathArgs :
           Enter("method", "tx_by_api_key", <<api_key>>, Inst, ShapeShiftIO_tx_by_api_key(Inst, api_key, heap))

Method_recent_tx ==
    /\ pc = "idle"
    /\ \/ Enter("method", "recent_tx", <<>>, Inst,
                ShapeShiftIO_recent_tx(Inst, ShapeShiftIO_recent_tx_default, heap))
       \/ \E max_results \in MaxResultsArgs :
              Enter("method", "recent_tx", <<max_results>>, Inst,
                    ShapeShiftIO_recent_tx(Inst, max_results, heap))

Method_coin_list ==
    /\ pc = "idle"
    /\ Enter("method", "coin_list", <<>>, Inst, ShapeShiftIO_coin_list(Inst, heap))

Method_tx_by_address ==
    /\ pc = "idle"
    /\ \E api_key \in PathArgs, address \in PathArgs :
           Enter("method", "tx_by_address", <<api_key, address>>, Inst,
                 ShapeShiftIO_tx_by_address(Inst, api_key, address, heap))

Method_validate_address ==
    /\ pc = "idle"
    /\ \E address \in PathArgs, coin \in PathArgs :
           Enter("method", "validate_address", <<address, coin>>, Inst,
                 ShapeShiftIO_validate_address(Inst, address, coin, heap))

Method_shift ==
    /\ pc = "idle"
    /\ \E postdata \in Mappings :
           Enter("method", "shift", <<postdata>>, Inst, ShapeShiftIO_shift(Inst, postdata, heap))

Method_set_mail ==
    /\ pc = "idle"
    /\ \E postdata \in Mappings :
           Enter("method", "set_mail", <<postdata>>, Inst, ShapeShiftIO_set_mail(Inst, postdata, heap))

Method_send_amount ==
    /\ pc = "idle"
    /\ \E postdata \in Mappings :
           Enter("method", "send_amount", <<postdata>>, Inst, ShapeShiftIO_send_amount(Inst, postdata, heap))

Method_cancel_pending ==
    /\ pc = "idle"
    /\ \E postdata \in Mappings :
           Enter("method", "cancel_pending", <<postdata>>, Inst, ShapeShiftIO_cancel_pending(Inst, postdata, heap))

Next ==
    \/ Call_rate
    \/ Call_limit
    \/ Call_market_info
    \/ Call_tx_status
    \/ Call_time_remaining
    \/ Call_tx_by_api_key
    \/ Call_recent_tx
    \/ Call_coin_list
    \/ Call_tx_by_address
    \/ Call_validate_address
    \/ Call_shift
    \/ Call_set_mail
    \/ Call_send_amount
    \/ Call_cancel_pending
    \/ Method_rate
    \/ Method_limit
    \/ Method_market_info
    \/ Method_tx_status
    \/ Method_time_remaining
    \/ Method_tx_by_api_key
    \/ Method_recent_tx
    \/ Method_coin_list
    \/ Method_tx_by_address
    \/ Method_validate_address
    \/ Method_shift
    \/ Method_set_mail
    \/ Method_send_amount
    \/ Method_cancel_pending
    \/ Step_get_request
    \/ Step_post_request
    \/ Return

Spec == Init /\ [][Next]_vars
(***************************************************************************)
(* Reference runs: the code above applied to a call's inputs on a heap h   *)
(* with the service responding r, from entry to the end of the call.       *)
(***************************************************************************)
Done == pc = "done"

FunctionFrame(op, args, url_store, h) ==
    CASE op = "rate"             -> rate(args[1], url_store, h)
      [] op = "limit"            -> limit(args[1], url_store, h)
      [] op = "market_info"      -> market_info(args[1], url_store, h)
      [] op = "recent_tx"        -> IF Len(args) = 0
                                    THEN recent_tx(recent_tx_default, url_store, h)
                                    ELSE recent_tx(args[1], url_store, h)
      [] op = "tx_status"        -> tx_status(args[1], url_store, h)
      [] op = "time_remaining"   -> time_remaining(args[1], url_store, h)
      [] op = "coin_list"        -> coin_list(url_store, h)
      [] op = "tx_by_api_key"    -> tx_by_api_key(args[1], url_store, h)
      [] op = "tx_by_address"    -> tx_by_address(args[1], args[2], url_store, h)
      [] op = "validate_address" -> validate_address(args[1], args[2], url_store, h)
      [] op = "shift"            -> shift(args[1], url_store, h)
      [] op = "set_mail"         -> set_mail(args[1], url_store, h)
      [] op = "send_amount"      -> send_amount(args[1], url_store, h)
      [] op = "cancel_pending"   -> cancel_pending(args[1], url_store, h)

MethodFrame(op, args, self, h) ==
    CASE op = "rate"             -> ShapeShiftIO_rate(self, args[1], h)
      [] op = "limit"            -> ShapeShiftIO_limit(self, args[1], h)
      [] op = "market_info"      -> ShapeShiftIO_market_info(self, args[1], h)
      [] op = "recent_tx"        -> IF Len(args) = 0
                                    THEN ShapeShiftIO_recent_tx(self, ShapeShiftIO_recent_tx_default, h)
                                    ELSE ShapeShiftIO_recent_tx(self, args[1], h)
      [] op = "tx_status"        -> ShapeShiftIO_tx_status(self, args[1], h)
      [] op = "time_remaining"   -> ShapeShiftIO_time_remaining(self, args[1], h)
      [] op = "coin_list"        -> ShapeShiftIO_coin_list(self, h)
      [] op = "tx_by_api_key"    -> ShapeShiftIO_tx_by_api_key(self, args[1], h)
      [] op = "tx_by_address"    -> ShapeShiftIO_tx_by_address(self, args[1], args[2], h)
      [] op = "validate_address" -> ShapeShiftIO_validate_address(self, args[1], args[2], h)
      [] op = "shift"            -> ShapeShiftIO_shift(self, args[1], h)
      [] op = "set_mail"         -> ShapeShiftIO_set_mail(self, args[1], h)
      [] op = "send_amount"      -> ShapeShiftIO_send_amount(self, args[1], h)
      [] op = "cancel_pending"   -> ShapeShiftIO_cancel_pending(self, args[1], h)

Finish(frame, r) ==
    CASE frame.pc = "get" ->
             LET done == _get_request(frame.url, r)
             IN  [heap |-> frame.heap, requests |-> <<done.request>>, outcome |-> done.outcome]
      [] frame.pc = "post" ->
             LET done == _post_request(frame.url, frame.postdata, r)
             IN  [heap |-> frame.heap, requests |-> <<done.request>>, outcome |-> done.outcome]
      [] OTHER -> [heap |-> frame.heap, requests |-> <<>>, outcome |-> Raised(frame.exc)]

RunFunction(op, args, url_store, h, r) == Finish(FunctionFrame(op, args, url_store, h), r)

RunMethod(op, args, self, h, r) == Finish(MethodFrame(op, args, self, h), r)

RunCall(c, h, r) ==
    IF c.via = "method" THEN RunMethod(c.op, c.args, c.url_store, h, r)
    ELSE RunFunction(c.op, c.args, c.url_store, h, r)

\* The responses a finished call is compared under: the one the service
\* gave it, or every one when no request reached the service.
ResponsesOfCall == IF resp = NoResponse THEN Responses ELSE { resp }

FreshHeap == [o \in Holders |-> None]

(***************************************************************************)
(* The operation table of the documentation, and what counts as a failed   *)
(* request, stated apart from the code.                                    *)
(***************************************************************************)
GetOps  == { "rate", "limit", "market_info", "recent_tx", "tx_status", "time_remaining",
             "coin_list", "tx_by_api_key", "tx_by_address", "validate_address" }
PostOps == { "shift", "set_mail", "send_amount", "cancel_pending" }

TableVerb(op) == IF op \in PostOps THEN "POST" ELSE "GET"

DecimalText(n) ==
    CASE n = -1 -> <<"-", "1">>
      [] n = 0  -> <<"0">>
      [] n = 5  -> <<"5">>
      [] n = 7  -> <<"7">>
      [] n = 51 -> <<"5", "1">>

TablePath(op, args) ==
    CASE op = "rate"             -> <<"/rate/">> \o args[1]
      [] op = "limit"            -> <<"/limit/">> \o args[1]
      [] op = "market_info"      -> <<"/marketinfo/">> \o args[1]
      [] op = "recent_tx"        -> <<"/recenttx/">>
                                    \o (IF Len(args) = 0 THEN <<"5">> ELSE DecimalText(args[1]))
      [] op = "tx_status"        -> <<"/txStat/">> \o args[1]
      [] op = "time_remaining"   -> <<"/timeremaining/">> \o args[1]
      [] op = "coin_list"        -> <<"/getcoins">>
      [] op = "tx_by_api_key"    -> <<"/txbyapi_key/">> \o args[1]
      [] op = "tx_by_address"    -> <<"/txbyaddress/">> \o args[2] \o <<"/">> \o args[1]
      [] op = "validate_address" -> <<"/validateAddress/">> \o args[1] \o <<"/">> \o args[2]
      [] op = "shift"            -> <<"/shift">>
      [] op = "set_mail"         -> <<"/mail">>
      [] op = "send_amount"      -> <<"/sendamount">>
      [] op = "cancel_pending"   -> <<"/cancelpending">>

TableUrl(op, args) == <<"https://shapeshift.io">> \o TablePath(op, args)

ValidJson == { RateBody, ErrorBody, ListBody }

Success(r) == r.net = "up" /\ r.status \in 200..299

\* The failure a response stands for, "" when it is a success with JSON.
FailureOf(r) ==
    CASE r.net # "up"         -> "URLError"
      [] ~Success(r)          -> "HTTPError"
      [] r.body \notin ValidJson -> "ValueError"
      [] OTHER                -> ""

\* A sink the call can store into or pass over: none, or an object with a
\* url attribute.
StoresOrSkips(url_store) == url_store \in { NoSink } \cup Holders

(***************************************************************************)
(* C1..C10                                                                 *)
(***************************************************************************)

\* C1: a ShapeShiftIO method issues the same request as the module-level
\* function called with the same arguments, and afterwards the instance's
\* url is that request's URL.
C1_MethodIssuesFunctionRequest ==
    (Done /\ call.via = "method") =>
        \A r \in ResponsesOfCall :
            LET f == RunFunction(call.op, call.args, NoSink, heap, r)
            IN  /\ requests = f.requests
                /\ requests # <<>> => heap[Inst] = requests[1].url

C3_SinkHoldsRequestUrl ==
    [][ /\ (pc = "idle" /\ call'.via = "function" /\ call'.url_store = NoSink)
            => heap' = heap
        /\ (pc' = "done" /\ call'.url_store \in Holders /\ requests' # <<>>)
            => heap'[call'.url_store] = requests'[1].url ]_vars

\* C4 as stated: whatever is passed as the sink, the call issues the request
\* and ends as the call without a sink does.
C4_AnySinkHasNoEffect ==
    (Done /\ call.via = "function") =>
        \A r \in ResponsesOfCall :
            LET f == RunFunction(call.op, call.args, NoSink, heap, r)
            IN  requests = f.requests /\ outcome = f.outcome

\* C4 amended: a sink that is an object with a url attribute, true or false
\* in a boolean test, has no effect on the request or on how the call ends.
C4_HolderSinkHasNoEffect ==
    (Done /\ call.via = "function" /\ call.url_store \in Holders) =>
        \A r \in ResponsesOfCall :
            LET f == RunFunction(call.op, call.args, NoSink, heap, r)
            IN  requests = f.requests /\ outcome = f.outcome

C4_Witness ==
    /\ Done
    /\ call.via = "function"
    /\ call.url_store = Inst
    /\ call.op = "cancel_pending"
    /\ heap[Inst] = requests[1].url
    /\ outcome.kind = "return"

\* C5: a failed request (connection, status, body that is not JSON) ends
\* the call in that failure, with no value, after exactly one request.
C5_FailurePropagates ==
    (Done /\ resp # NoResponse /\ FailureOf(resp) # "") =>
        /\ outcome = Raised(FailureOf(resp))
        /\ Len(requests) = 1

C5_Witness ==
    /\ Done
    /\ resp.net = "up"
    /\ resp.status = 500
    /\ resp.body = ErrorBody
    /\ outcome.kind = "raise"

\* C6: on a success status with a JSON body the call returns the decoded
\* body unchanged, a service-reported error object included.
ExpectedJson(body) ==
    CASE body = RateBody ->
             [t |-> "object", v |-> << <<"pair", "btc_ltc">>, <<"rate", "70.1234">> >>]
      [] body = ErrorBody ->
             [t |-> "object", v |-> << <<"error", "Unknown pair">> >>]
      [] body = ListBody ->
             [t |-> "array", v |-> << <<"pair", "btc_ltc">>, <<"pair", "ltc_btc">> >>]

C6_DecodedBodyReturned ==
    (Done /\ requests # <<>> /\ Success(resp) /\ resp.body \in ValidJson) =>
        outcome = Returned(ExpectedJson(resp.body))

C6_Witness ==
    /\ Done
    /\ requests # <<>>
    /\ resp.status = 200
    /\ resp.body = ErrorBody
    /\ outcome.kind = "return"
    /\ outcome.value.v[1][1] = "error"

\* Decoding of a form body: split at "&", each piece at its first "=", "+"
\* read as a space and %XX as the character it stands for.
Unhex(a, b) ==
    CASE a = "2" /\ b = "6" -> "&"
      [] a = "3" /\ b = "D" -> "="
      [] a = "2" /\ b = "B" -> "+"
      [] a = "2" /\ b = "5" -> "%"
      [] a = "3" /\ b = "F" -> "?"
      [] a = "2" /\ b = "F" -> "/"
      [] OTHER              -> "?undefined"

RECURSIVE Unquote(_)
Unquote(s) ==
    IF s = <<>> THEN <<>>
    ELSE IF Head(s) = "+" THEN <<" ">> \o Unquote(Tail(s))
    ELSE IF Head(s) = "%" /\ Len(s) >= 3
         THEN <<Unhex(s[2], s[3])>> \o Unquote(SubSeq(s, 4, Len(s)))
    ELSE <<Head(s)>> \o Unquote(Tail(s))

\* The position of the first c in s, Len(s) + 1 when there is none.
RECURSIVE Find(_, _, _)
Find(s, c, i) == IF i > Len(s) \/ s[i] = c THEN i ELSE Find(s, c, i + 1)

ParseField(piece) ==
    LET eq == Find(piece, "=", 1)
    IN  <<Unquote(SubSeq(piece, 1, eq - 1)), Unquote(SubSeq(piece, eq + 1, Len(piece)))>>

RECURSIVE ParseForm(_)
ParseForm(body) ==
    IF body = <<>> THEN <<>>
    ELSE LET amp == Find(body, "&", 1)
         IN  <<ParseField(SubSeq(body, 1, amp - 1))>>
             \o ParseForm(SubSeq(body, amp + 1, Len(body)))

C8_NoDependenceOnEarlierCalls ==
    Done =>
        \A r \in ResponsesOfCall :
            LET f == RunCall(call, FreshHeap, r)
            IN  requests = f.requests /\ outcome = f.outcome

\* An earlier coin_list stored its URL in the instance; the call that has
\* now ended passed another sink and sent the request of its own arguments.
C8_Witness ==
    /\ Done
    /\ heap[Inst] = <<"https://shapeshift.io", "/getcoins">>
    /\ call.op = "rate"
    /\ call.url_store = Falsy
    /\ requests # <<>>
    /\ outcome.kind = "return"

\* C9: recent_tx requests /recenttx/5 when max_results is left out, and
\* otherwise /recenttx/ followed by the decimal text of the value given,
\* out of range or not; the method has the same default.
C9_RecentTxPath ==
    (Done /\ call.op = "recent_tx") =>
        /\ (call.via = "function" /\ StoresOrSkips(call.url_store)) => Len(requests) = 1
        /\ call.via = "method" => Len(requests) = 1
        /\ \A i \in 1..Len(requests) :
               requests[i].url = <<"https://shapeshift.io", "/recenttx/">>
                             \o (IF Len(call.args) = 0 THEN <<"5">>
                                 ELSE DecimalText(call.args[1]))

C9_Witness ==
    /\ Done
    /\ call.op = "recent_tx"
    /\ call.via = "method"
    /\ Len(call.args) = 0
    /\ requests = << [verb |-> "GET", url |-> <<"https://shapeshift.io", "/recenttx/", "5">>,
                       body |-> None] >>

\* C10: market_info("") requests exactly /marketinfo/ and ends as any other
\* call does: it returns what the service sends.
C10_EmptyPairMarketInfo ==
    (Done /\ call.op = "market_info" /\ call.args[1] = <<>> /\ requests # <<>>) =>
        /\ requests = << [verb |-> "GET", url |-> <<"https://shapeshift.io", "/marketinfo/">>,
                      body |-> None] >>
        /\ (Success(resp) /\ resp.body \in ValidJson)
               => outcome = Returned(ExpectedJson(resp.body))

C10_Witness ==
    /\ Done
    /\ call.op = "market_info"
    /\ call.args[1] = <<>>
    /\ resp.status = 200
    /\ resp.body = ListBody
    /\ outcome.kind = "return"
    /\ outcome.value.t = "array"

(***************************************************************************)
(* C11..C12                                                                *)
(***************************************************************************)

\* C11: the instance's url is None at first, changes only in a call that is
\* given the instance, and after every method call, of any of the 14
\* operations, is the URL of that method's request.
C11_UrlIsLastMethodRequest ==
    /\ heap[Inst] = None
    /\ [][ /\ heap'[Inst] # heap[Inst] => call'.url_store = Inst
           /\ (pc' = "done" /\ call'.via = "method")
                  => /\ Len(requests') = 1
                     /\ requests'[1].url = TableUrl(call'.op, call'.args)
                     /\ heap'[Inst] = requests'[1].url ]_vars

\* C12: when the request is about to be issued the supplied sink already
\* holds its URL, and after a call whose request failed (connection, status,
\* body that is not JSON) the sink holds the URL of that failed request.
C12_SinkWrittenBeforeRequest ==
    /\ (pc \in {"get", "post"} /\ call.url_store \in Holders)
           => heap[call.url_store] = pending.url
    /\ (Done /\ call.url_store \in Holders /\ resp # NoResponse /\ FailureOf(resp) # "")
           => heap[call.url_store] = requests[1].url

====
